---------------------------- MODULE Spec2Model ----------------------------
(***************************************************************************)
(* Model of generate_fas_data (src/草稿.py, lines 82-105) and of the call  *)
(* the page makes to it (line 109) with the values of its three sliders    *)
(* (lines 53-64).                                                          *)
(*                                                                         *)
(* Numbers.  Energies and perturbations are real numbers in the program.   *)
(* The model keeps them in fixed point, in thousandths of a percent        *)
(* (20 % is 20000), so that round(x, 2) of line 98 is a real conversion:   *)
(* it maps a value to the nearest multiple of 10 thousandths.  Binary      *)
(* floating-point representation error is outside the model.               *)
(***************************************************************************)
EXTENDS Integers, Sequences, FiniteSets

VARIABLES
    pc,                \* "idle" | "loop" | "returned" | "raised"
    cycles,            \* argument cycles
    initial_energy,    \* argument initial_energy (thousandths)
    energy_variation,  \* argument energy_variation (thousandths)
    i,                 \* loop variable of line 88
    energy_base,       \* running energy (thousandths), line 86 / 92
    cycles_data,       \* list of rows built by line 94
    draws,             \* the variates consumed from np.random, in order
    df,                \* the rows handed to the caller (line 105 / 109)
    error,             \* "" or the exception that left the function
    calls              \* number of calls made so far

vars == << pc, cycles, initial_energy, energy_variation, i, energy_base,
           cycles_data, draws, df, error, calls >>

-----------------------------------------------------------------------------
(* Bounds of the model *)

\* How far outside the slider range 0..7 a direct caller's cycles is drawn.
CyclesBeyond == 1

\* Calls per behaviour (the page runs the script again on every change).
MaxCalls == 2

-----------------------------------------------------------------------------
(* Program constants *)

\* Thousandths per unit: the fixed-point scale of the model.
Milli == 1000

\* One hundredth, the grain of round(x, 2), in thousandths.
Centi == 10

\* target_cycle slider, max_value=7
SliderMaxCycle == 7

\* initial_energy slider, 0..100
SliderMaxEnergy == 100

\* energy_variation slider, 0..30
SliderMaxVariation == 30

\* max(10, ...) of line 92
EnergyFloor == 10

\* min(100, ...) of line 92
EnergyCeil == 100

\* max(60, ...) of line 102
ActivityFloor == 60

\* list of line 85 (subscript digits written as plain digits)
carbon_lengths == << "C2", "C4", "C6", "C8", "C10", "C12", "C14", "C16" >>

-----------------------------------------------------------------------------
(* Inputs *)

\* Values the three sliders can deliver (whole numbers), in thousandths.
SliderCycles    == 0 .. SliderMaxCycle
SliderEnergy    == { Milli * e : e \in 0 .. SliderMaxEnergy }
SliderVariation == { Milli * v : v \in 0 .. SliderMaxVariation }

\* cycles arguments tried: the slider range and values on both sides of it.
CycleInputs == (0 - CyclesBeyond) .. (SliderMaxCycle + CyclesBeyond)

\* initial_energy arguments tried: 0 (below the floor), the slider default
\* 20, 95 (near the ceiling) and 20.004, which no slider delivers.
EnergyInputs == { 0, 20 * Milli, 95 * Milli, 20 * Milli + 4 }

\* energy_variation arguments tried: -1 (negative), 0, 0.006 (no slider
\* delivers it), the slider default 5 and the slider maximum 30.
VariationInputs == { 0 - Milli, 0, 6, 5 * Milli, SliderMaxVariation * Milli }

-----------------------------------------------------------------------------
(* Pure functions *)

Max(a, b) == IF a >= b THEN a ELSE b
Min(a, b) == IF a <= b THEN a ELSE b

\* round(x, 2): nearest hundredth, a tie going to the even hundredth.
Round2(x) ==
    LET q == x \div Centi
        r == x % Centi
    IN  IF 2 * r < Centi THEN Centi * q
        ELSE IF 2 * r > Centi THEN Centi * (q + 1)
        ELSE IF q % 2 = 0 THEN Centi * q ELSE Centi * (q + 1)

\* Clamp without its floor: min(100, x) only.
ClampNoFloor(x) == Min(EnergyCeil * Milli, x)

\* max(10, min(100, x)) of line 92
Clamp(x) == Max(EnergyFloor * Milli, Min(EnergyCeil * Milli, x))

\* The fractions u of [0, 1] at which np.random.uniform is sampled, as
\* numerators over UDen.  numpy computes low + (high - low) * u and says
\* that high itself can come out by rounding.
UDen == 10000
USamples == { 0, 6172, UDen }

\* uniform over an interval twice as wide as asked.
UniformDouble(low, high) ==
    { 2 * low + ((2 * high - 2 * low) * u) \div UDen : u \in USamples }

\* np.random.uniform(low, high): numpy does not compare low with high, so
\* with low > high the same formula yields values between high and low.
Uniform(low, high) == { low + ((high - low) * u) \div UDen : u \in USamples }

\* The row with NADPH counted once per cycle instead of twice.
RowSingleNadph(k, e) ==
    [ cycle_index         |-> k,
      carbon_chain_label  |-> carbon_lengths[k + 1],
      carbon_atom_count   |-> 2 * (k + 1),
      energy_level_pct    |-> Round2(e),
      atp_consumed        |-> k,
      nadph_consumed      |-> k,
      reaction_time       |-> k * 25,
      enzyme_activity_pct |-> Max(ActivityFloor, 100 - k * 5) ]

\* The row appended at line 94 for loop index k and running energy e.
\* reaction_time (k * 2.5) is kept in tenths.
Row(k, e) ==
    [ cycle_index         |-> k,
      carbon_chain_label  |-> carbon_lengths[k + 1],
      carbon_atom_count   |-> 2 * (k + 1),
      energy_level_pct    |-> Round2(e),
      atp_consumed        |-> k,
      nadph_consumed      |-> k * 2,
      reaction_time       |-> k * 25,
      enzyme_activity_pct |-> Max(ActivityFloor, 100 - k * 5) ]

\* A lookup one entry short.
IndexInRangeShort(k) == k < Len(carbon_lengths) - 1

\* carbon_lengths[k] raises IndexError for k >= len(carbon_lengths);
\* k is never negative, as it comes from range().
IndexInRange(k) == k < Len(carbon_lengths)

\* range(cycles) in place of range(cycles + 1).
InRangeShort(k, c) == k < c

\* range(cycles + 1) still has the element k
InRange(k, c) == k < c + 1

\* The running energy kept from the call before instead of being set anew.
InitialBaseStale(e) == IF calls = 0 THEN e ELSE energy_base

\* energy_base = initial_energy (line 86)
InitialBase(e) == e

-----------------------------------------------------------------------------
(* State machine *)

Init ==
    /\ pc = "idle"
    /\ cycles = 0
    /\ initial_energy = 0
    /\ energy_variation = 0
    /\ i = 0
    /\ energy_base = 0
    /\ cycles_data = << >>
    /\ draws = << >>
    /\ df = << >>
    /\ error = ""
    /\ calls = 0

\* generate_fas_data(c, e, v) is entered: lines 82-86 and the loop header.
Call(c, e, v) ==
    /\ pc \in { "idle", "returned", "raised" }
    /\ calls < MaxCalls
    /\ pc' = "loop"
    /\ cycles' = c
    /\ initial_energy' = e
    /\ energy_variation' = v
    /\ i' = 0
    /\ energy_base' = InitialBase(e)
    /\ cycles_data' = << >>
    /\ draws' = << >>
    /\ df' = << >>
    /\ error' = ""
    /\ calls' = calls + 1

\* The energy step applied at index 0 as well.
NextBaseAlways(k, base, p) == Clamp(base + p)

\* Each step offset from initial_energy instead of the running energy.
NextBaseIndependent(k, base, p) ==
    IF k > 0 THEN Clamp(initial_energy + p) ELSE base

\* The energy step of lines 90-92 for loop index k: the new running energy
\* for a drawn variation p.
NextBase(k, base, p) == IF k > 0 THEN Clamp(base + p) ELSE base

\* The variations line 91 can draw at loop index k (none drawn at index 0).
Variations(k, v) == IF k > 0 THEN Uniform(0 - v, v) ELSE { 0 }

\* One iteration of the loop body, lines 88-103.
LoopBody ==
    /\ pc = "loop"
    /\ InRange(i, cycles)
    /\ \E variation \in Variations(i, energy_variation) :
         LET base == NextBase(i, energy_base, variation) IN
         /\ energy_base' = base
         /\ draws' = IF i > 0 THEN Append(draws, variation) ELSE draws
         /\ IF IndexInRange(i)
              THEN /\ cycles_data' = Append(cycles_data, Row(i, base))
                   /\ i' = i + 1
                   /\ UNCHANGED << pc, error >>
              ELSE /\ pc' = "raised"
                   /\ error' = "IndexError"
                   /\ UNCHANGED << cycles_data, i >>
    /\ UNCHANGED << cycles, initial_energy, energy_variation, df, calls >>

\* range(cycles + 1) is exhausted: line 105 returns the rows.
Return ==
    /\ pc = "loop"
    /\ ~ InRange(i, cycles)
    /\ pc' = "returned"
    /\ df' = cycles_data
    /\ UNCHANGED << cycles, initial_energy, energy_variation, i, energy_base,
                    cycles_data, draws, error, calls >>

Next ==
    \/ \E c \in CycleInputs, e \in EnergyInputs, v \in VariationInputs :
         Call(c, e, v)
    \/ LoopBody
    \/ Return

Spec == Init /\ [][Next]_vars

-----------------------------------------------------------------------------
(* Vocabulary of the properties *)

Finished == pc \in { "returned", "raised" }

Abs(x) == IF x < 0 THEN 0 - x ELSE x

\* The arguments are values the page's sliders deliver.
FromSliders ==
    /\ cycles \in SliderCycles
    /\ initial_energy \in SliderEnergy
    /\ energy_variation \in SliderVariation

InBand(e) == EnergyFloor * Milli <= e /\ e <= EnergyCeil * Milli

\* The running energy after n draws of tape, starting from e: the clamped
\* random walk of spec section 4.1, steps 1 and 3b.
RECURSIVE Walk(_, _, _)
Walk(e, tape, n) ==
    IF n = 0 THEN e ELSE Clamp(Walk(e, tape, n - 1) + tape[n])

\* The series section 4.1 describes for cycle count c, initial energy e
\* and perturbation sequence tape, with energies emitted to two decimals.
SeriesOf(c, e, tape) ==
    IF c < 0 THEN << >>
    ELSE [ k \in 1 .. (c + 1) |-> Row(k - 1, Walk(e, tape, k - 1)) ]

\* The number of carbons a chain label names.
LabelCarbons(l) ==
    CASE l = "C2"  -> 2
      [] l = "C4"  -> 4
      [] l = "C6"  -> 6
      [] l = "C8"  -> 8
      [] l = "C10" -> 10
      [] l = "C12" -> 12
      [] l = "C14" -> 14
      [] l = "C16" -> 16
      [] OTHER     -> 0

-----------------------------------------------------------------------------
(* C1 *)

\* C1 as claimed: for every input the sliders can supply, every record,
\* the one at cycle_index 0 included, has 10 <= energy_level_pct <= 100.
C1_AllRecordsInBand ==
    FromSliders =>
        \A k \in 1 .. Len(cycles_data) : InBand(cycles_data[k].energy_level_pct)

\* C1 as amended: every record with cycle_index >= 1 has
\* 10 <= energy_level_pct <= 100, whatever the arguments and the draws; the
\* record at cycle_index 0 carries initial_energy (to two decimals)
\* unclamped, so it is within the band whenever initial_energy is.
C1_StepRecordsInBand ==
    \A k \in 1 .. Len(cycles_data) :
        /\ k >= 2 => InBand(cycles_data[k].energy_level_pct)
        /\ (k = 1 /\ InBand(initial_energy)) =>
               InBand(cycles_data[k].energy_level_pct)

\* A series from initial_energy 95 and energy_variation 30 in which the
\* walk was cut at the ceiling and, later, at the floor.
C1_Witness ==
    /\ pc = "returned"
    /\ initial_energy = 95 * Milli
    /\ energy_variation = SliderMaxVariation * Milli
    /\ \E k \in 2 .. Len(df) :
         /\ df[k].energy_level_pct = EnergyCeil * Milli
         /\ energy_base = EnergyFloor * Milli
         /\ Walk(initial_energy, draws, k - 2) + draws[k - 1] > EnergyCeil * Milli

-----------------------------------------------------------------------------
(* C2 *)

\* C2: for cycle_count in 0..7 the returned series has exactly
\* cycle_count + 1 records, and record k (from 0) has cycle_index k.
C2_LengthAndOrder ==
    (pc = "returned" /\ cycles \in SliderCycles) =>
        /\ Len(df) = cycles + 1
        /\ \A k \in 1 .. Len(df) : df[k].cycle_index = k - 1

C2_Witness ==
    /\ pc = "returned"
    /\ cycles = SliderMaxCycle
    /\ Len(df) = SliderMaxCycle + 1
    /\ df[Len(df)].cycle_index = SliderMaxCycle

-----------------------------------------------------------------------------
(* C3 *)

\* C3 as claimed: a call with cycle_count negative or above 7 (and a valid
\* energy_variation) ends in an error and returns no series; any exception
\* is accepted here as the InvalidParameter signal.
C3_OutOfRangeRejected ==
    (Finished /\ cycles \notin SliderCycles /\ energy_variation >= 0) =>
        (pc = "raised" /\ df = << >>)

-----------------------------------------------------------------------------
(* C4 *)

\* C4 as claimed: a call with negative energy_variation (and a valid
\* cycle_count) ends in an error and returns no series.
C4_NegativeVariationRejected ==
    (Finished /\ cycles \in SliderCycles /\ energy_variation < 0) =>
        (pc = "raised" /\ df = << >>)

-----------------------------------------------------------------------------
(* C5 *)

-----------------------------------------------------------------------------
(* C6 *)

\* C6: in every record, with k its cycle_index, carbon_atom_count is
\* 2*(k+1), atp_consumed k, nadph_consumed 2*k and enzyme_activity_pct
\* max(60, 100 - 5*k); generate(0, E, V) yields the single record
\* (0, 2, 0, 0, 100) and generate(7, ...) ends with (7, 16, 7, 14, 65).
C6_DerivedFields ==
    /\ \A n \in 1 .. Len(cycles_data) :
         LET r == cycles_data[n]
             k == r.cycle_index
         IN  /\ r.carbon_atom_count = 2 * (k + 1)
             /\ r.atp_consumed = k
             /\ r.nadph_consumed = 2 * k
             /\ r.enzyme_activity_pct = Max(60, 100 - 5 * k)
    /\ (pc = "returned" /\ cycles = 0) =>
         /\ Len(df) = 1
         /\ df[1].cycle_index = 0
         /\ df[1].carbon_atom_count = 2
         /\ df[1].atp_consumed = 0
         /\ df[1].nadph_consumed = 0
         /\ df[1].enzyme_activity_pct = 100
    /\ (pc = "returned" /\ cycles = 7) =>
         /\ df[Len(df)].carbon_atom_count = 16
         /\ df[Len(df)].atp_consumed = 7
         /\ df[Len(df)].nadph_consumed = 14
         /\ df[Len(df)].enzyme_activity_pct = 65

\* generate(7, 20, 5) has returned, after draws that moved the energy.
C6_Witness ==
    /\ pc = "returned"
    /\ cycles = 7
    /\ initial_energy = 20 * Milli
    /\ energy_variation = 5 * Milli
    /\ df[8].carbon_atom_count = 16
    /\ df[8].energy_level_pct # df[1].energy_level_pct

-----------------------------------------------------------------------------
(* C7 *)

\* C7: the returned series is a function of the three arguments and of
\* the perturbation sequence only: it is SeriesOf(cycles, initial_energy,
\* draws) whatever call came before, so two calls with the same arguments
\* fed the same perturbations return the same series.
C7_FunctionOfArgsAndDraws ==
    pc = "returned" => df = SeriesOf(cycles, initial_energy, draws)

\* A second call has returned a series of several perturbed records.
C7_Witness ==
    /\ pc = "returned"
    /\ calls = 2
    /\ Len(df) >= 3
    /\ \E n \in 1 .. Len(draws) : draws[n] # 0

-----------------------------------------------------------------------------
(* C8 *)

\* What C8 and its amendment share: while rows are being emitted, exactly
\* one perturbation has been drawn per record of cycle_index >= 1 and
\* none for index 0, each within energy_variation of zero, and the
\* running energy is the clamped walk over them.
C8_Draws ==
    pc # "raised" =>
        /\ Len(draws) = Max(0, Len(cycles_data) - 1)
        /\ \A n \in 1 .. Len(draws) : Abs(draws[n]) <= Abs(energy_variation)
        /\ energy_base = Walk(initial_energy, draws, Len(draws))

\* C8 as claimed, for arguments the sliders deliver: record i (i >= 1)
\* emits the running energy clamp(previous running energy + p_i, 10, 100)
\* itself.
C8_EmitsRunningEnergy ==
    FromSliders =>
        /\ C8_Draws
        /\ \A k \in 2 .. Len(cycles_data) :
             cycles_data[k].energy_level_pct =
                 Clamp(Walk(initial_energy, draws, k - 2) + draws[k - 1])

\* C8 as amended: record i (i >= 1) emits the running energy
\* clamp(previous running energy + p_i, 10, 100) rounded to two decimals;
\* the value carried into step i+1 is the clamped, unrounded one.
C8_EmitsRoundedRunningEnergy ==
    /\ C8_Draws
    /\ \A k \in 2 .. Len(cycles_data) :
         cycles_data[k].energy_level_pct =
             Round2(Clamp(Walk(initial_energy, draws, k - 2) + draws[k - 1]))

\* Two steps have accumulated: the third record is not initial_energy
\* plus its own perturbation, and rounding changed what it shows.
C8_Witness ==
    /\ pc = "returned"
    /\ Len(df) >= 3
    /\ energy_variation > 0
    /\ df[3].energy_level_pct # Round2(Clamp(initial_energy + draws[2]))
    /\ df[3].energy_level_pct # Walk(initial_energy, draws, 2)

-----------------------------------------------------------------------------
(* C9 *)

\* C9: with a cycle_count the slider can supply the call never fails, and
\* in every record the label is the lookup entry at cycle_index and names
\* as many carbons as carbon_atom_count.
C9_LabelLookup ==
    /\ cycles \in SliderCycles => (pc # "raised" /\ error = "")
    /\ \A n \in 1 .. Len(cycles_data) :
         LET r == cycles_data[n] IN
         /\ r.cycle_index + 1 \in 1 .. 8
         /\ r.carbon_chain_label = carbon_lengths[r.cycle_index + 1]
         /\ LabelCarbons(r.carbon_chain_label) = r.carbon_atom_count

\* The slider's largest cycle count has returned its eighth label.
C9_Witness ==
    /\ pc = "returned"
    /\ FromSliders
    /\ cycles = SliderMaxCycle
    /\ df[SliderMaxCycle + 1].carbon_chain_label = "C16"

-----------------------------------------------------------------------------
(* C10 *)

\* The three statements of C10 about the records emitted so far, for
\* energy_variation v and initial_energy e.
StepsBounded(e, v) ==
    /\ \A k \in 2 .. Len(cycles_data) :
         Abs(cycles_data[k].energy_level_pct
               - cycles_data[k - 1].energy_level_pct) <= v
    /\ v = 0 =>
         \A k \in 1 .. Len(cycles_data) : cycles_data[k].energy_level_pct = e
    /\ \A k \in 1 .. Len(cycles_data) :
         Abs(cycles_data[k].energy_level_pct - e)
             <= cycles_data[k].cycle_index * v

\* C10 as claimed: for initial_energy in [10,100] and any
\* energy_variation >= 0.
C10_BoundedStep ==
    (InBand(initial_energy) /\ energy_variation >= 0) =>
        StepsBounded(initial_energy, energy_variation)

\* The same three statements with the allowance that rounding each
\* emitted energy to two decimals needs: half a hundredth per rounded
\* value.
StepsBoundedRounded(e, v) ==
    /\ \A k \in 2 .. Len(cycles_data) :
         Abs(cycles_data[k].energy_level_pct
               - cycles_data[k - 1].energy_level_pct) <= v + Centi
    /\ v = 0 =>
         \A k \in 1 .. Len(cycles_data) :
             cycles_data[k].energy_level_pct = Round2(e)
    /\ \A k \in 1 .. Len(cycles_data) :
         2 * Abs(cycles_data[k].energy_level_pct - e)
             <= 2 * cycles_data[k].cycle_index * v + Centi

\* C10 as amended: for initial_energy in [10,100] and energy_variation
\* >= 0, consecutive records differ by at most energy_variation + 0.01,
\* with energy_variation = 0 every record equals initial_energy rounded to
\* two decimals, and every record lies within cycle_index *
\* energy_variation + 0.005 of initial_energy; when both arguments are
\* whole numbers, as the sliders deliver them, the three bounds hold as
\* first stated, without the allowance.
C10_BoundedStepRounded ==
    (InBand(initial_energy) /\ energy_variation >= 0) =>
        /\ StepsBoundedRounded(initial_energy, energy_variation)
        /\ (initial_energy % Milli = 0 /\ energy_variation % Milli = 0) =>
               StepsBounded(initial_energy, energy_variation)

\* A slider-made series in which a step of the full energy_variation was
\* emitted, and one in which the clamp made the step smaller.
C10_Witness ==
    /\ pc = "returned"
    /\ FromSliders
    /\ InBand(initial_energy)
    /\ energy_variation > 0
    /\ \E k \in 2 .. Len(df) :
         Abs(df[k].energy_level_pct - df[k - 1].energy_level_pct)
             = energy_variation
    /\ \E k \in 2 .. Len(df) :
         Abs(df[k].energy_level_pct - df[k - 1].energy_level_pct)
             < Abs(draws[k - 1])

=============================================================================
